---- MODULE Spec2Model ----
(***************************************************************************)
(* Migration routines of ImpDAR (impdar/lib/migration_routines.py):        *)
(* migrationKirchhoff, migrationStolt, migrationPhaseShift and their       *)
(* supporting functions phaseShift, fourierFiniteDiff, Sp_Matr and         *)
(* getVelocityProfile.                                                     *)
(*                                                                         *)
(* One behaviour is one call of one engine on one radargram.  Indices are  *)
(* 1-based here and 0-based in the source.                                 *)
(*                                                                         *)
(* Floating-point values are kept as one of three classes:                 *)
(*   "Z"  exactly zero,  "F"  finite (generically non-zero),               *)
(*   "N"  not finite (NaN or +-inf).                                       *)
(* Geometry (travel times, distances, velocities, frequency and wavenumber *)
(* indices, stencil entries) is kept as exact integers.                    *)
(***************************************************************************)
EXTENDS Integers, Sequences, FiniteSets, TLC

\* ------------------------------------------------------------------ bounds
MaxS == 3
MaxT == 3
MaxV == 2
MaxLay == 3
MaxDim == 4

\* ------------------------------------------------------- value classes
Cls == {"Z", "F", "N"}

\* IEEE product of two values, by class: 0 * nan = nan, 0 * inf = nan.
Mul(a, b) ==
  IF a = "N" \/ b = "N" THEN "N"
  ELSE IF a = "Z" \/ b = "Z" THEN "Z"
  ELSE "F"

\* IEEE sum of two values, by class.
Add(a, b) ==
  IF a = "N" \/ b = "N" THEN "N"
  ELSE IF a = "Z" /\ b = "Z" THEN "Z"
  ELSE "F"

\* Sum of the entries of a sequence of classes (np.sum, a dot product).
SumCls(s) ==
  IF \E i \in DOMAIN s : s[i] = "N" THEN "N"
  ELSE IF \E i \in DOMAIN s : s[i] = "F" THEN "F"
  ELSE "Z"

\* np.nansum: NaN entries count as zero.
NanSum(s) ==
  IF \E i \in DOMAIN s : s[i] = "F" THEN "F" ELSE "Z"

\* A discrete Fourier transform (forward or inverse) of a vector: every
\* output bin is a combination of every input entry with unit-modulus weights.
FFTvec(s) == [i \in DOMAIN s |-> SumCls(s)]

AllCls(m, c) == \A i \in DOMAIN m : \A j \in DOMAIN m[i] : m[i][j] = c

AnyCls(m, c) == \E i \in DOMAIN m : \E j \in DOMAIN m[i] : m[i][j] = c

MatCls(m) == IF AnyCls(m, "N") THEN "N" ELSE IF AnyCls(m, "F") THEN "F" ELSE "Z"

Rows(m) == Len(m)

Cols(m) == IF Len(m) = 0 THEN 0 ELSE Len(m[1])

Shape(m) == <<Rows(m), Cols(m)>>

ConstMat(r, c, v) == [i \in 1..r |-> [j \in 1..c |-> v]]

\* np.fft.fft2(a, (r, c)) / np.fft.ifft2: the input is zero-padded to (r, c),
\* then transformed along both axes.
FFT2(m, r, c) == ConstMat(r, c, MatCls(m))

\* a[:r, :c]
Crop(m, r, c) == [i \in 1..r |-> [j \in 1..c |-> m[i][j]]]

\* -------------------------------------------------------- integer helpers
RECURSIVE Pow2Above(_, _)
Pow2Above(p, n) == IF p >= n THEN p ELSE Pow2Above(2 * p, n)

\* 2**ceil(log(n)/log(2))
NextPow2(n) == Pow2Above(1, n)

\* np.fft.fftfreq(n)[j-1] * n : the signed frequency number of bin j.
FreqIndex(n, j) == IF (j - 1) <= ((n - 1) \div 2) THEN j - 1 ELSE (j - 1) - n

Sq(x) == x * x

Min2(a, b) == IF a < b THEN a ELSE b

SeqMin(s) == CHOOSE x \in {s[i] : i \in DOMAIN s} : \A i \in DOMAIN s : x <= s[i]

\* --------------------------------------------------------------- state
VARIABLES
  pc,         \* position in the running call
  err,        \* the exception that ended the call, "none" otherwise
  engine,     \* which migration routine was called
  dat,        \* the radargram object (RadarData) passed to the call
  dat0,       \* the fields of dat when the call was made
  vel,        \* the vel argument / local of the engine
  vel_in,     \* the vel argument as the caller passed it
  vel_fn,     \* the vel_fn argument
  nearfield,  \* the nearfield argument
  work,       \* the stages of work performed so far
  gradD, migdata,             \* Kirchhoff locals
  FK, KK, TK,                 \* frequency-domain buffers
  vmig,                       \* output of getVelocityProfile
  gvp_arg, ps_arg,            \* vels_in as received by getVelocityProfile / phaseShift
  stencil, FFX_last,          \* Fourier finite-difference locals
  FFX_src,    \* the (itau, iw) iteration that assigned FFX_last, <<0, 0>> for line 312
  ffd_calls,  \* the fourierFiniteDiff calls made: iteration and origin of FFX_last
  TK_writers, \* per cell of TK, the frequency indices iw that accumulated into it
  FK_dep,     \* per row of FK, the frequency indices whose fields it is computed from
  FFX_dep,    \* the frequency indices whose fields FFX_last is computed from
  xi, ti, itau, iw            \* loop counters

vars == <<pc, err, engine, dat, dat0, vel, vel_in, vel_fn, nearfield, work,
          gradD, migdata, FK, KK, TK, vmig, gvp_arg, ps_arg, stencil, FFX_last,
          FFX_src, ffd_calls, TK_writers, FK_dep, FFX_dep, xi, ti, itau, iw>>

\* Locals of the three engines, as a group for UNCHANGED.
kirchLocals == <<gradD, migdata, xi, ti>>

freqLocals == <<FK, KK, TK>>

velLocals == <<vmig, gvp_arg, ps_arg>>

ffdLocals == <<stencil, FFX_last>>

psCounters == <<itau, iw>>

\* The record of the data flow of phaseShift.
flow == <<FFX_src, ffd_calls, TK_writers, FK_dep, FFX_dep>>

args == <<vel_in, vel_fn, nearfield, engine, dat0>>

\* Unset values: no exception or engine, an unassigned array, an unassigned
\* velocity.
None == "none"

NoMat == << >>

NoVel == [kind |-> "none"]

\* ----------------------------------------------------------- radargram
\* The sample matrices a loader may hand over: all zero, all non-zero, or a
\* single point scatterer.
Patterns == {"zero", "flat", "spike"}

Samples(r, c, p) ==
  [i \in 1..r |-> [j \in 1..c |->
     IF p = "zero" THEN "Z"
     ELSE IF p = "flat" THEN "F"
     ELSE IF i = 1 /\ j = 1 THEN "F" ELSE "Z"]]

\* A RadarData object.  data may disagree with (snum, tnum): the engines
\* check that themselves.  travel_time is strictly increasing and starts
\* above zero, dt > 0, trace_int > 0; dist is cumulative, or all zero when it
\* was never set.
Radargram(S, T, r, c, p, distSet) ==
  [data        |-> Samples(r, c, p),
   snum        |-> S,
   tnum        |-> T,
   dt          |-> 1,
   travel_time |-> [i \in 1..S |-> i],
   trace_int   |-> [k \in 1..T |-> 1],
   dist        |-> [k \in 1..T |-> IF distSet THEN k - 1 ELSE 0]]

Radargrams ==
  {Radargram(S, T, r, c, p, d) :
     S \in 2..MaxS, T \in 2..MaxT, r \in 2..MaxS, c \in 2..MaxT,
     p \in Patterns, d \in BOOLEAN}

\* ------------------------------------------------------- velocity input
\* A velocity argument is a scalar (kind "const") or a 2-D array (kind
\* "table") of nlay rows and dimension columns.  mono says whether its depth
\* column is monotonic; covers says whether the two-way times interpolated
\* from it cover the radargram's travel_time; src tells the caller's array
\* from the one np.genfromtxt loads.
Constants(src) == {[kind |-> "const", v |-> v, src |-> src] : v \in 1..MaxV}

Tables(src) ==
  {[kind |-> "table", nlay |-> n, dimension |-> d, mono |-> m, covers |-> cv,
    src |-> src] :
     n \in 1..MaxLay, d \in 1..MaxDim, m \in BOOLEAN, cv \in BOOLEAN}

\* Tables with at most two rows are listed with monotonic depths only, and
\* tables that are not (nlay > 1, 2 or 3 columns) never reach the
\* interpolation, so they are listed once.
VelTables(src) ==
  {t \in Tables(src) :
     /\ (t.nlay < 3 => t.mono)
     /\ (~(t.nlay > 1 /\ t.dimension \in {2, 3}) => (t.mono /\ t.covers))}

VelSpecs(src) == Constants(src) \cup VelTables(src)

\* hasattr(v, "__len__")
HasLen(v) == v.kind \notin {"const", "none"}

\* vel_fn: no file, a file np.genfromtxt loads into a table, or a file it
\* raises on.
VelFiles == {[state |-> "absent"], [state |-> "unreadable"]}
              \cup {[state |-> "loads", table |-> t] : t \in VelTables("file")}

\* ------------------------------------------------------------------ Init
Init ==
  /\ pc = "idle"
  /\ err = None
  /\ engine = None
  /\ dat \in Radargrams
  /\ dat0 = dat
  /\ vel = NoVel
  /\ vel_in = NoVel
  /\ vel_fn = [state |-> "none"]
  /\ nearfield = FALSE
  /\ work = {}
  /\ gradD = NoMat
  /\ migdata = NoMat
  /\ FK = NoMat
  /\ KK = NoMat
  /\ TK = NoMat
  /\ vmig = NoVel
  /\ gvp_arg = NoVel
  /\ ps_arg = NoVel
  /\ stencil = NoMat
  /\ FFX_last = NoMat
  /\ FFX_src = <<0, 0>>
  /\ ffd_calls = {}
  /\ TK_writers = NoMat
  /\ FK_dep = << >>
  /\ FFX_dep = {}
  /\ xi = 0
  /\ ti = 0
  /\ itau = 0
  /\ iw = 0

\* The shape check with the trace count forgotten.
ShapeOK_rowsOnly(d) == Rows(d.data) = d.snum

\* The check every engine starts with:
\* np.size(dat.data,1) != dat.tnum or np.size(dat.data,0) != dat.snum
ShapeOK(d) == Cols(d.data) = d.tnum /\ Rows(d.data) = d.snum

\* raise: the call ends with exception e; nothing else is touched.
Raise(e) == pc' = "error" /\ err' = e

\* ------------------------------------------------------------ Kirchhoff
\* migrationKirchhoff, entry: the shape check.
migrationKirchhoff ==
  /\ pc = "idle"
  /\ \E v \in Constants("arg"), nf \in BOOLEAN :
       /\ vel' = v
       /\ vel_in' = v
       /\ nearfield' = nf
  /\ engine' = "kirchhoff"
  /\ dat0' = dat
  /\ vel_fn' = [state |-> "absent"]
  /\ IF ShapeOK(dat) THEN pc' = "k_gradient" /\ err' = err
                     ELSE Raise("ShapeMismatch")
  /\ UNCHANGED <<dat, work, kirchLocals, freqLocals, velLocals, ffdLocals, psCounters, flow>>

\* np.gradient(a, t, axis=0): one-sided differences at the two ends, the
\* three-point formula in between.
Gradient(a) ==
  [i \in 1..Rows(a) |-> [j \in 1..Cols(a) |->
     SumCls([n \in 1..3 |->
        LET r == i + n - 2 IN
        IF r < 1 \/ r > Rows(a) THEN "Z" ELSE a[r][j]])]]

\* gradD = np.gradient(...); migdata = np.zeros_like(dat.data)
KirchhoffGradient ==
  /\ pc = "k_gradient"
  /\ gradD' = Gradient(dat.data)
  /\ migdata' = ConstMat(Rows(dat.data), Cols(dat.data), "Z")
  /\ xi' = 1
  /\ ti' = 1
  /\ work' = work \cup {"gradient"}
  /\ pc' = "k_pixel"
  /\ UNCHANGED <<err, dat, vel, args, freqLocals, velLocals, ffdLocals, psCounters, flow>>

\* (v * 2r/v)^2 for the ray from apex (t, x) to trace k:
\* rs = sqrt((dist-x)^2 + z^2), z = vel*t/2.
RayTimeSq(d, v, t, x, k) == 4 * Sq(d.dist[k] - x) + Sq(v) * Sq(t)

\* np.argmin(abs(dat.travel_time/1e6 - 2.*r/vel)): the first sample whose
\* midpoint to the next sample is not below the ray time.
Didx(d, v, t, x, k) ==
  CHOOSE i \in 1..d.snum :
    /\ (i < d.snum =>
          4 * RayTimeSq(d, v, t, x, k)
             <= Sq(v) * Sq(d.travel_time[i] + d.travel_time[i + 1]))
    /\ \A h \in 1..(i - 1) :
          4 * RayTimeSq(d, v, t, x, k)
             > Sq(v) * Sq(d.travel_time[h] + d.travel_time[h + 1])

\* 2.*rs/vel > max(dat.travel_time/1e6)
OutsideDomain(d, v, t, x, k) ==
  RayTimeSq(d, v, t, x, k) > Sq(v) * Sq(d.travel_time[d.snum])

\* a[Didx[k], k] along the hyperbola, zeroed outside the domain.
Hyperbola(a, d, v, t, x) ==
  [k \in 1..d.tnum |->
     IF OutsideDomain(d, v, t, x, k) THEN "Z" ELSE a[Didx(d, v, t, x, k)][k]]

\* The value of one output pixel (lines 71-95): far-field term, plus the
\* near-field term when asked for.  costheta = z/rs and 1/rs**2 are finite
\* and non-zero because travel_time > 0.
Pixel(d, gD, v, nf, t_i, x_i) ==
  LET t == d.travel_time[t_i]
      x == d.dist[x_i]
      far == NanSum([k \in 1..d.tnum |-> Mul(Hyperbola(gD, d, v, t, x)[k], "F")])
      near == NanSum([k \in 1..d.tnum |-> Mul(Hyperbola(d.data, d, v, t, x)[k], "F")])
      integral == IF nf THEN Add(far, near) ELSE far
  IN Mul("F", integral)

\* The inner loop with migdata bound to dat.data itself instead of a new array:
\* every pixel is written into the input.
KirchhoffPixel_inplace ==
  /\ pc = "k_pixel"
  /\ migdata' = [migdata EXCEPT ![ti][xi] = Pixel(dat, gradD, vel.v, nearfield, ti, xi)]
  /\ dat' = [dat EXCEPT !.data[ti][xi] = Pixel(dat, gradD, vel.v, nearfield, ti, xi)]
  /\ work' = work \cup {"loop"}
  /\ IF ti < dat.snum THEN ti' = ti + 1 /\ xi' = xi /\ pc' = pc
     ELSE IF xi < dat.tnum THEN ti' = 1 /\ xi' = xi + 1 /\ pc' = pc
     ELSE ti' = ti /\ xi' = xi /\ pc' = "k_assign"
  /\ UNCHANGED <<err, vel, args, gradD, freqLocals, velLocals, ffdLocals, psCounters, flow>>

\* One iteration of the inner loop: migdata[ti,xi] = 1./(2.*np.pi)*integral
KirchhoffPixel ==
  /\ pc = "k_pixel"
  /\ migdata' = [migdata EXCEPT ![ti][xi] = Pixel(dat, gradD, vel.v, nearfield, ti, xi)]
  /\ work' = work \cup {"loop"}
  /\ IF ti < dat.snum THEN ti' = ti + 1 /\ xi' = xi /\ pc' = pc
     ELSE IF xi < dat.tnum THEN ti' = 1 /\ xi' = xi + 1 /\ pc' = pc
     ELSE ti' = ti /\ xi' = xi /\ pc' = "k_assign"
  /\ UNCHANGED <<err, dat, vel, args, gradD, freqLocals, velLocals, ffdLocals, psCounters, flow>>

\* dat.data = migdata.copy(); return dat
KirchhoffReturn ==
  /\ pc = "k_assign"
  /\ dat' = [dat EXCEPT !.data = migdata]
  /\ pc' = "done"
  /\ UNCHANGED <<err, vel, args, work, kirchLocals, freqLocals, velLocals, ffdLocals,
                 psCounters, flow>>

\* ---------------------------------------------------------------- Stolt
\* migrationStolt, entry: the shape check.
migrationStolt ==
  /\ pc = "idle"
  /\ \E v \in Constants("arg") :
       /\ vel' = v
       /\ vel_in' = v
  /\ engine' = "stolt"
  /\ dat0' = dat
  /\ vel_fn' = [state |-> "absent"]
  /\ IF ShapeOK(dat) THEN pc' = "s_fft" /\ err' = err
                     ELSE Raise("ShapeMismatch")
  /\ UNCHANGED <<dat, nearfield, work, kirchLocals, freqLocals, velLocals, ffdLocals,
                 psCounters, flow>>

\* nt, nx and FK = np.fft.fft2(dat.data,(nt,nx))
StoltFFT ==
  /\ pc = "s_fft"
  /\ FK' = FFT2(dat.data, NextPow2(dat.snum), NextPow2(dat.tnum))
  /\ work' = work \cup {"fft"}
  /\ pc' = "s_interp"
  /\ UNCHANGED <<err, dat, vel, args, kirchLocals, KK, TK, velLocals, ffdLocals,
                 psCounters, flow>>

\* interp_real(kxi,wsj) + 1j*interp_imag(kxi,wsj): a linear interpolant of
\* FK is a weighted mean of entries of FK.
Interp2d(fk) == MatCls(fk)

\* The interpolation loop over (zj, xi): KK = np.zeros_like(FK), then every
\* cell is assigned.
StoltInterp ==
  /\ pc = "s_interp"
  /\ KK' = [zj \in 1..Rows(FK) |-> [x \in 1..Cols(FK) |-> Interp2d(FK)]]
  /\ work' = work \cup {"loop"}
  /\ pc' = "s_scale"
  /\ UNCHANGED <<err, dat, vel, args, kirchLocals, FK, TK, velLocals, ffdLocals,
                 psCounters, flow>>

\* scaling = kZ/np.sqrt(kX**2.+kZ**2.): 0/0 at the DC cell, 0 along kz = 0,
\* finite and non-zero elsewhere.
Scaling(nt, nx, zj, x) ==
  IF FreqIndex(nt, zj) # 0 THEN "F"
  ELSE IF FreqIndex(nx, x) # 0 THEN "Z"
  ELSE "N"

\* KK *= scaling; KK[0,0] = 0.+0j
ObliquityScaled(kk) ==
  [zj \in 1..Rows(kk) |-> [x \in 1..Cols(kk) |->
     IF zj = 1 /\ x = 1 THEN "Z"
     ELSE Mul(kk[zj][x], Scaling(Rows(kk), Cols(kk), zj, x))]]

StoltScale ==
  /\ pc = "s_scale"
  /\ KK' = ObliquityScaled(KK)
  /\ pc' = "s_ifft"
  /\ UNCHANGED <<err, dat, vel, args, work, kirchLocals, FK, TK, velLocals, ffdLocals,
                 psCounters, flow>>

\* dat.data = np.real(np.fft.ifft2(KK))
StoltInverse ==
  /\ pc = "s_ifft"
  /\ dat' = [dat EXCEPT !.data = FFT2(KK, Rows(KK), Cols(KK))]
  /\ pc' = "s_crop"
  /\ UNCHANGED <<err, vel, args, work, kirchLocals, freqLocals, velLocals, ffdLocals,
                 psCounters, flow>>

\* The return without the cut to the input dimensions.
StoltReturn_nocrop ==
  /\ pc = "s_crop"
  /\ pc' = "done"
  /\ UNCHANGED <<err, dat, vel, args, work, kirchLocals, freqLocals, velLocals,
                 ffdLocals, psCounters, flow>>

\* dat.data = dat.data[:dat.snum,:dat.tnum]; return dat
StoltReturn ==
  /\ pc = "s_crop"
  /\ dat' = [dat EXCEPT !.data = Crop(dat.data, dat.snum, dat.tnum)]
  /\ pc' = "done"
  /\ UNCHANGED <<err, vel, args, work, kirchLocals, freqLocals, velLocals, ffdLocals,
                 psCounters, flow>>

\* -------------------------------------------------------------- Sp_Matr
ZeroMat(N) == [i \in 1..N |-> [j \in 1..N |-> 0]]

\* A.setdiag(val*np.ones(len), k=k): the first len entries of diagonal k
\* (k > 0 above the main diagonal, k < 0 below, k = 0 the main diagonal).
SetDiag(A, val, len, k) ==
  [i \in 1..Len(A) |-> [j \in 1..Len(A) |->
     IF j - i = k /\ Min2(i, j) <= len THEN val ELSE A[i][j]]]

\* Sp_Matr(N,diag,k1,k2,k3=0,k4=0,nx=0): the five setdiag calls in order,
\* then the boundary rows A[0,0] = 1, A[0,1:] = 0, A[-1,-1] = 1, A[-1,:-1] = 1.
Sp_Matr(N, diag, k1, k2, k3, k4, nx) ==
  LET A1 == SetDiag(ZeroMat(N), diag, N, 0)
      A2 == SetDiag(A1, k1, N - 1, 1)
      A3 == SetDiag(A2, k2, N - 1, -1)
      A4 == SetDiag(A3, k3, N - nx, nx)
      A5 == SetDiag(A4, k4, N - nx, -nx)
  IN [i \in 1..N |-> [j \in 1..N |->
        IF i = 1 THEN (IF j = 1 THEN 1 ELSE 0)
        ELSE IF i = N THEN 1
        ELSE A5[i][j]]]

\* stencil * v for an integer vector v.
MatVec(A, v) ==
  LET RECURSIVE RowSum(_, _)
      RowSum(i, j) == IF j = 0 THEN 0 ELSE A[i][j] * v[j] + RowSum(i, j - 1)
  IN [i \in 1..Len(A) |-> RowSum(i, Len(A))]

\* stencil * v for a vector of value classes: a sparse product only touches
\* the stored (non-zero) entries of the matrix.
SpMatVecCls(A, v) ==
  [i \in 1..Len(A) |->
     SumCls([j \in 1..Len(A) |-> IF A[i][j] = 0 THEN "Z" ELSE v[j]])]

\* --------------------------------------------------- getVelocityProfile
\* The migration velocities 2*np.gradient(zoft,twtt) of the layered branch:
\* one velocity level per sample.
LayeredProfiles(S) ==
  {[i \in 1..S |-> v] : v \in 1..MaxV}
    \cup {[i \in 1..S |-> IF i = 1 THEN 1 ELSE MaxV]}

\* The velocity matrix of the gridded branch, shape (snum, tnum): laterally
\* uniform rows, or rows that vary from trace to trace.
GriddedProfiles(S, T) ==
  {[i \in 1..S |-> [x \in 1..T |-> v]] : v \in 1..MaxV}
    \cup {[i \in 1..S |-> [x \in 1..T |-> 1 + ((x + i) % MaxV)]]}

\* all(dat.dist == 0)
DistUnset(d) == \A k \in 1..d.tnum : d.dist[k] = 0

\* getVelocityProfile, lines 446-459/483/516: a scalar is returned as it
\* is; an array is unpacked and sent to the layered or the gridded branch.
\* Reading column 1 of a one-column array raises IndexError; an array that
\* fits neither branch reaches "return vmig" with vmig never assigned.
getVelocityProfile ==
  /\ pc = "gvp"
  /\ gvp_arg' = vel
  /\ work' = work \cup {"gvp"}
  /\ IF ~HasLen(vel)
       THEN vmig' = vel /\ pc' = "ps_setup" /\ err' = err
     ELSE IF vel.dimension < 2
       THEN vmig' = vmig /\ Raise("IndexError")
     ELSE IF vel.nlay > 1 /\ vel.dimension = 2
       THEN vmig' = vmig /\ pc' = "gvp_layered" /\ err' = err
     ELSE IF vel.nlay > 1 /\ vel.dimension = 3
       THEN vmig' = vmig /\ pc' = "gvp_distcheck" /\ err' = err
     ELSE vmig' = vmig /\ Raise("UnboundLocalError")
  /\ UNCHANGED <<dat, vel, args, kirchLocals, freqLocals, ps_arg, ffdLocals, psCounters, flow>>

\* The layered branch with twtt made by dividing dat.travel_time in place.
VelocityLayered_inplace ==
  /\ pc = "gvp_layered"
  /\ dat' = [dat EXCEPT !.travel_time = [i \in DOMAIN dat.travel_time |-> 0]]
  /\ IF vel.covers
       THEN /\ \E p \in LayeredProfiles(dat.snum) :
                 vmig' = [kind |-> "layered", v |-> p]
            /\ pc' = "ps_setup"
            /\ err' = err
       ELSE vmig' = vmig /\ Raise("OutOfRange")
  /\ UNCHANGED <<vel, args, work, kirchLocals, freqLocals, gvp_arg, ps_arg,
                 ffdLocals, psCounters, flow>>

\* Layered branch, lines 460-480, on twtt = dat.travel_time.copy()/1e6.
VelocityLayered ==
  /\ pc = "gvp_layered"
  /\ IF vel.covers
       THEN /\ \E p \in LayeredProfiles(dat.snum) :
                 vmig' = [kind |-> "layered", v |-> p]
            /\ pc' = "ps_setup"
            /\ err' = err
       ELSE vmig' = vmig /\ Raise("OutOfRange")
  /\ UNCHANGED <<dat, vel, args, work, kirchLocals, freqLocals, gvp_arg, ps_arg,
                 ffdLocals, psCounters, flow>>

\* The gridded branch without the distance check.
VelocityDistCheck_skipped ==
  /\ pc = "gvp_distcheck"
  /\ pc' = "gvp_gridded"
  /\ UNCHANGED <<err, dat, vel, args, work, kirchLocals, freqLocals, velLocals,
                 ffdLocals, psCounters, flow>>

\* Gridded branch, lines 484-491: the depth array, then the distance check.
VelocityDistCheck ==
  /\ pc = "gvp_distcheck"
  /\ IF DistUnset(dat)
       THEN Raise("DistanceUnset")
       ELSE pc' = "gvp_gridded" /\ err' = err
  /\ UNCHANGED <<dat, vel, args, work, kirchLocals, freqLocals, velLocals, ffdLocals,
                 psCounters, flow>>

\* Gridded branch, lines 492-512: meshgrid, griddata, per-trace conversion.
VelocityGridded ==
  /\ pc = "gvp_gridded"
  /\ work' = work \cup {"grid"}
  /\ IF vel.covers
       THEN /\ \E p \in GriddedProfiles(dat.snum, dat.tnum) :
                 vmig' = [kind |-> "gridded", v |-> p]
            /\ pc' = "ps_setup"
            /\ err' = err
       ELSE vmig' = vmig /\ Raise("OutOfRange")
  /\ UNCHANGED <<dat, vel, args, kirchLocals, freqLocals, gvp_arg, ps_arg, ffdLocals,
                 psCounters, flow>>

\* ------------------------------------------------------------ phase shift
\* The velocity arguments a caller passes: any vel without a file or with a
\* file that does not load; a scalar vel beside a file that loads.
PhaseShiftArgs ==
  {<<v, f>> \in VelSpecs("arg") \X VelFiles :
     f.state = "loads" => ~HasLen(v)}

\* migrationPhaseShift, entry: the shape check.
migrationPhaseShift ==
  /\ pc = "idle"
  /\ \E a \in PhaseShiftArgs :
       /\ vel' = a[1]
       /\ vel_in' = a[1]
       /\ vel_fn' = a[2]
  /\ engine' = "phaseshift"
  /\ dat0' = dat
  /\ IF ShapeOK(dat) THEN pc' = "p_fft" /\ err' = err
                     ELSE Raise("ShapeMismatch")
  /\ UNCHANGED <<dat, nearfield, work, kirchLocals, freqLocals, velLocals, ffdLocals,
                 psCounters, flow>>

\* The forward transform done in place on dat.data.
PhaseShiftFFT_inplace ==
  /\ pc = "p_fft"
  /\ FK' = FFT2(dat.data, NextPow2(dat.snum), dat.tnum)
  /\ dat' = [dat EXCEPT !.data = FFT2(dat.data, NextPow2(dat.snum), dat.tnum)]
  /\ work' = work \cup {"fft"}
  /\ pc' = "p_velfile"
  /\ UNCHANGED <<err, vel, args, kirchLocals, KK, TK, velLocals, ffdLocals,
                 psCounters, flow>>

\* nt, kx, ws and FK = np.fft.fft2(dat.data,(nt,dat.tnum))
PhaseShiftFFT ==
  /\ pc = "p_fft"
  /\ FK' = FFT2(dat.data, NextPow2(dat.snum), dat.tnum)
  /\ work' = work \cup {"fft"}
  /\ pc' = "p_velfile"
  /\ UNCHANGED <<err, dat, vel, args, kirchLocals, KK, TK, velLocals, ffdLocals,
                 psCounters, flow>>

\* The loaded table dropped: vel stays the caller's argument.
LoadedVel_ignored(v, f) == v

\* The value of vel after lines 226-231 when np.genfromtxt(vel_fn) returns.
LoadedVel(v, f) == IF f.state = "loads" THEN f.table ELSE v

\* if vel_fn is not None: try: vel = np.genfromtxt(vel_fn) except: raise TypeError
PhaseShiftLoadVel ==
  /\ pc = "p_velfile"
  /\ IF vel_fn.state = "unreadable"
       THEN vel' = vel /\ Raise("VelocityFileUnreadable")
       ELSE vel' = LoadedVel(vel, vel_fn) /\ pc' = "gvp" /\ err' = err
  /\ UNCHANGED <<dat, args, work, kirchLocals, freqLocals, velLocals, ffdLocals,
                 psCounters, flow>>

\* len(vmig)
VmigLen(vm) == Len(vm.v)

\* hasattr(vmig[0],"__len__")
IsGridded(vm) == vm.kind = "gridded"

\* phaseShift, lines 280-316: TK, the dispatch on vmig, the length check
\* and the stencil.
phaseShiftSetup ==
  /\ pc = "ps_setup"
  /\ ps_arg' = vel
  /\ TK' = ConstMat(dat.snum, dat.tnum, "Z")
  /\ itau' = 1
  /\ iw' = 1
  /\ IF ~HasLen(vmig)
       THEN pc' = "ps_const" /\ err' = err /\ UNCHANGED ffdLocals
     ELSE IF VmigLen(vmig) # dat.snum
       THEN Raise("VelocityLength") /\ UNCHANGED ffdLocals
     ELSE IF IsGridded(vmig)
       THEN /\ stencil' = Sp_Matr(dat.tnum, -2, 1, 1, 0, 0, 0)
            /\ FFX_last' = [x \in 1..dat.tnum |-> "Z"]
            /\ pc' = "ps_var"
            /\ err' = err
     ELSE pc' = "ps_var" /\ err' = err /\ UNCHANGED ffdLocals
  /\ TK_writers' = ConstMat(dat.snum, dat.tnum, {})
  /\ FK_dep' = [w \in 1..Rows(FK) |-> {w}]
  /\ UNCHANGED <<dat, vel, args, work, kirchLocals, FK, KK, vmig, gvp_arg, FFX_src,
                 ffd_calls, FFX_dep>>

\* np.mean(dat.trace_int), for the evenly spaced traces modelled here.
Dx(d) == d.trace_int[1]

\* vkx2 < w**2 with vkx2 = (v*kx/2)**2, for wavenumber bin x and frequency
\* bin w of an nt-point time axis.  Both sides are multiplied by
\* (nt*dt*T*dx/pi)**2.  At w = 0 the substitute 1e-10/dt is below every
\* non-zero |v*kx/2|.
Propagating(d, v, nt, w, x) ==
  IF FreqIndex(nt, w) = 0 THEN FreqIndex(d.tnum, x) = 0
  ELSE Sq(v * FreqIndex(d.tnum, x) * nt * d.dt)
         < Sq(2 * FreqIndex(nt, w) * d.tnum * Dx(d))

\* coss <= (tau/dat.travel_time[-1]/1e6)**2 with coss = 1 - (0.5*vbg*kx/w)**2:
\* the right-hand side is at most 1e-12.
Evanescent(d, v, nt, w, x) ==
  IF FreqIndex(nt, w) = 0 THEN FreqIndex(d.tnum, x) # 0
  ELSE Sq(v * FreqIndex(d.tnum, x) * nt * d.dt)
         >= Sq(2 * FreqIndex(nt, w) * d.tnum * Dx(d))

\* The constant-velocity iteration without the mask ik: every wavenumber is
\* accumulated.
PhaseShiftConst_noMask ==
  /\ pc = "ps_const"
  /\ TK' = [t \in 1..dat.snum |-> [x \in 1..dat.tnum |->
              Add(TK[t][x], Mul(FK[iw][x], "F"))]]
  /\ work' = work \cup {"loop"}
  /\ IF iw < Rows(FK) THEN iw' = iw + 1 /\ pc' = pc
                      ELSE iw' = iw /\ pc' = "p_finish"
  /\ TK_writers' = [t \in 1..dat.snum |-> [x \in 1..dat.tnum |->
                      TK_writers[t][x] \cup {iw}]]
  /\ UNCHANGED <<err, dat, vel, args, kirchLocals, FK, KK, velLocals, ffdLocals, itau,
                 FFX_src, ffd_calls, FK_dep, FFX_dep>>

\* One frequency of the constant-velocity branch, lines 287-302: the mask
\* ik, the phase factor cp (unit modulus), and the accumulation over every
\* itau.
PhaseShiftConst ==
  /\ pc = "ps_const"
  /\ TK' = [t \in 1..dat.snum |-> [x \in 1..dat.tnum |->
              IF Propagating(dat, vmig.v, Rows(FK), iw, x)
                THEN Add(TK[t][x], Mul(FK[iw][x], "F"))
                ELSE TK[t][x]]]
  /\ work' = work \cup {"loop"}
  /\ IF iw < Rows(FK) THEN iw' = iw + 1 /\ pc' = pc
                      ELSE iw' = iw /\ pc' = "p_finish"
  /\ TK_writers' = [t \in 1..dat.snum |-> [x \in 1..dat.tnum |->
                      IF Propagating(dat, vmig.v, Rows(FK), iw, x)
                        THEN TK_writers[t][x] \cup {iw}
                        ELSE TK_writers[t][x]]]
  /\ UNCHANGED <<err, dat, vel, args, kirchLocals, FK, KK, velLocals, ffdLocals, itau,
                 FFX_src, ffd_calls, FK_dep, FFX_dep>>

\* vbg: np.min(vmig[itau]) or vmig[itau]
Vbg(vm, t) == IF IsGridded(vm) THEN SeqMin(vm.v[t]) ELSE vm.v[t]

\* vfg = vmig[itau]-vbg
Vfg(vm, t) == [x \in DOMAIN vm.v[t] |-> vm.v[t][x] - Vbg(vm, t)]

\* cshift2 for phase2 = (1./vbg - 2./vfg)*w*dt: 2./0 is inf, and the cosine
\* and sine of an infinite phase are NaN.
ThinLens(vfg) == [x \in DOMAIN vfg |-> IF vfg[x] = 0 THEN "N" ELSE "F"]

\* fourierFiniteDiff: coeff1 and coeff2 are multiples of vs**2.
fourierFiniteDiff(vs, FFX, last, st) ==
  LET coeff == [x \in DOMAIN vs |-> IF vs[x] = 0 THEN "Z" ELSE "F"]
      sF == SpMatVecCls(st, FFX)
      sL == SpMatVecCls(st, last)
  IN [x \in DOMAIN FFX |->
        Add(last[x], Add(Mul(coeff[x], sF[x]), Mul(coeff[x], Add(sF[x], sL[x]))))]

\* FK[iw] *= cshift: the retardation factor has unit modulus.
Retarded(row) == [x \in DOMAIN row |-> Mul(row[x], "F")]

\* Lines 344-355: FFX after the thin-lens and diffraction terms.
FFXof(row, vm, t, last, st) ==
  LET lens == [x \in DOMAIN row |-> Mul(FFTvec(row)[x], ThinLens(Vfg(vm, t))[x])]
  IN IF t > 1 THEN fourierFiniteDiff(Vfg(vm, t), lens, last, st) ELSE lens

\* FK[iw,idx] = 0.0 + 0j
ZeroEvanescent(row, d, v, nt, w) ==
  [x \in DOMAIN row |-> IF Evanescent(d, v, nt, w, x) THEN "Z" ELSE row[x]]

\* The arrays one iteration of the layered / gridded loop reads and writes.
LoopState == [FK |-> FK, TK |-> TK, FFX_last |-> FFX_last, FK_dep |-> FK_dep,
              FFX_dep |-> FFX_dep]

\* The body of the loop, lines 324-364, at depth t and frequency w, on the
\* arrays st: the retardation shift of FK[w]; in the gridded case the thin-lens
\* and diffraction terms, which read FFX_last and then overwrite it; the
\* evanescent zeroing; the accumulation into TK[t].
VarIter(st, vm, d, sten, t, w) ==
  LET shifted == Retarded(st.FK[w])
      FFX == FFXof(shifted, vm, t, st.FFX_last, sten)
      back == IF IsGridded(vm) THEN FFTvec(FFX) ELSE shifted
      row == ZeroEvanescent(back, d, Vbg(vm, t), Rows(st.FK), w)
      dep == IF IsGridded(vm) /\ t > 1 THEN st.FK_dep[w] \cup st.FFX_dep
             ELSE st.FK_dep[w]
  IN [FK       |-> [st.FK EXCEPT ![w] = row],
      TK       |-> [st.TK EXCEPT ![t] = [x \in 1..d.tnum |-> Add(st.TK[t][x], row[x])]],
      FFX_last |-> IF IsGridded(vm) THEN FFX ELSE st.FFX_last,
      FK_dep   |-> [st.FK_dep EXCEPT ![w] = dep],
      FFX_dep  |-> IF IsGridded(vm) THEN dep ELSE st.FFX_dep]

\* One (itau, iw) iteration of the layered / gridded branch, lines 318-364.
PhaseShiftVar ==
  /\ pc = "ps_var"
  /\ LET r == VarIter(LoopState, vmig, dat, stencil, itau, iw)
     IN /\ FK' = r.FK
        /\ TK' = r.TK
        /\ FFX_last' = r.FFX_last
        /\ FK_dep' = r.FK_dep
        /\ FFX_dep' = r.FFX_dep
  /\ FFX_src' = IF IsGridded(vmig) THEN <<itau, iw>> ELSE FFX_src
  /\ ffd_calls' = IF IsGridded(vmig) /\ itau > 1
                    THEN ffd_calls \cup {[itau |-> itau, iw |-> iw, last |-> FFX_src]}
                    ELSE ffd_calls
  /\ TK_writers' = [TK_writers EXCEPT ![itau] =
                      [x \in 1..dat.tnum |-> TK_writers[itau][x] \cup {iw}]]
  /\ work' = work \cup {"loop"}
  /\ IF iw < Rows(FK) THEN iw' = iw + 1 /\ itau' = itau /\ pc' = pc
     ELSE IF itau < dat.snum THEN iw' = 1 /\ itau' = itau + 1 /\ pc' = pc
     ELSE iw' = iw /\ itau' = itau /\ pc' = "p_finish"
  /\ UNCHANGED <<err, dat, vel, args, kirchLocals, KK, velLocals, stencil>>

\* TK[:,:dat.tnum] / dat.snum
Normalised(tk, d) == [t \in 1..Rows(tk) |-> [x \in 1..d.tnum |-> Mul(tk[t][x], "F")]]

\* np.fft.ifft(TK).real: an inverse transform of every row.
IFFTRows(tk) == [t \in 1..Rows(tk) |-> FFTvec(tk[t])]

\* phaseShift returns TK (lines 367-370); dat.data = np.fft.ifft(TK).real;
\* return dat
PhaseShiftReturn ==
  /\ pc = "p_finish"
  /\ TK' = Normalised(TK, dat)
  /\ dat' = [dat EXCEPT !.data = IFFTRows(Normalised(TK, dat))]
  /\ pc' = "done"
  /\ UNCHANGED <<err, vel, args, work, kirchLocals, FK, KK, velLocals, ffdLocals,
                 psCounters, flow>>

Next ==
  \/ migrationKirchhoff
  \/ KirchhoffGradient
  \/ KirchhoffPixel
  \/ KirchhoffReturn
  \/ migrationStolt
  \/ StoltFFT
  \/ StoltInterp
  \/ StoltScale
  \/ StoltInverse
  \/ StoltReturn
  \/ migrationPhaseShift
  \/ PhaseShiftFFT
  \/ PhaseShiftLoadVel
  \/ getVelocityProfile
  \/ VelocityLayered
  \/ VelocityDistCheck
  \/ VelocityGridded
  \/ phaseShiftSetup
  \/ PhaseShiftConst
  \/ PhaseShiftVar
  \/ PhaseShiftReturn

Spec == Init /\ [][Next]_vars
\* ------------------------------------------------------------ properties
Ended == pc \in {"done", "error"}

\* C1: for each of the three engines, a sample matrix whose row count is not
\* snum or whose column count is not tnum makes the call fail with
\* ShapeMismatch, before any transform, velocity-profile construction or loop
\* iteration; and ShapeMismatch is raised for no other input.
C1_ShapeMismatchFirst ==
  /\ (engine # None /\ (Rows(dat0.data) # dat0.snum \/ Cols(dat0.data) # dat0.tnum))
       => /\ pc = "error"
          /\ err = "ShapeMismatch"
          /\ work = {}
          /\ FK = NoMat /\ gradD = NoMat /\ vmig = NoVel /\ gvp_arg = NoVel
  /\ err = "ShapeMismatch"
       => (Rows(dat0.data) # dat0.snum \/ Cols(dat0.data) # dat0.tnum)

\* C1 witness: a call that failed on a wrong trace count alone.
C1_Witness ==
  /\ pc = "error"
  /\ err = "ShapeMismatch"
  /\ Rows(dat0.data) = dat0.snum
  /\ Cols(dat0.data) # dat0.tnum

\* C2: a call that ends in an error leaves the samples exactly as they were
\* before the call; the samples differ from the input only on the successful
\* exit path (Stolt's two closing assignments, or the return).
C2_NoPartialMigration ==
  /\ pc = "error" => (err # None /\ dat.data = dat0.data)
  /\ dat.data # dat0.data => pc \in {"done", "s_crop"}

\* C2 witness: an error raised after the transform and the velocity
\* interpolation had started.
C2_Witness ==
  /\ pc = "error"
  /\ err = "OutOfRange"
  /\ FK # NoMat
  /\ ~AllCls(dat0.data, "Z")

\* C3: after a successful call the radargram holds the migrated matrix in
\* data, and dt, travel_time, trace_int, dist, snum and tnum are what they
\* were before the call.
C3_OnlySamplesReplaced ==
  pc = "done" =>
    /\ [dat EXCEPT !.data = dat0.data] = dat0
    /\ engine = "kirchhoff" => dat.data = migdata
    /\ engine = "stolt" => dat.data = Crop(FFT2(KK, Rows(KK), Cols(KK)), dat0.snum, dat0.tnum)
    /\ engine = "phaseshift" => dat.data = IFFTRows(TK)

\* C3 witness: a successful phase-shift call that built a layered velocity
\* profile and changed the samples.
C3_Witness ==
  /\ pc = "done"
  /\ vmig # NoVel
  /\ HasLen(vmig)
  /\ vmig.kind = "layered"
  /\ dat.data # dat0.data

\* C4: after a successful call of any engine the samples have the shape
\* (snum, tnum) of the input.
C4_ShapePreserved ==
  pc = "done" => Shape(dat.data) = <<dat0.snum, dat0.tnum>>

\* C4 witness: a successful Stolt call whose transform was padded beyond the
\* input shape.
C4_Witness ==
  /\ pc = "done"
  /\ engine = "stolt"
  /\ Shape(KK) # <<dat0.snum, dat0.tnum>>

\* [1, 0, ..., 0, T]
BoundaryVector(T) == [i \in 1..T |-> IF i = 1 THEN 1 ELSE IF i = T THEN T ELSE 0]

\* C5: the stencil built by the Fourier finite-difference branch (size T,
\* d = -2, k1 = k2 = 1) applied to the all-ones vector gives [1, 0, ..., 0, T]
\* for every T >= 3.
C5_StencilBoundary ==
  (stencil # NoMat /\ dat.tnum >= 3)
    => MatVec(stencil, [i \in 1..dat.tnum |-> 1]) = BoundaryVector(dat.tnum)

InvalidTable(v) ==
  /\ HasLen(v)
  /\ (v.dimension \notin {2, 3} \/ v.nlay < 2 \/ ~v.mono)

\* C6: a phase-shift call whose velocity table has a column count other than
\* 2 or 3, fewer than 2 rows or non-monotonic depths ends with
\* InvalidVelocitySpec: it neither completes nor fails with another error.
C6_InvalidVelocitySpec ==
  (Ended /\ gvp_arg # NoVel /\ InvalidTable(gvp_arg))
    => (pc = "error" /\ err = "InvalidVelocitySpec")

GriddedSpec(v) == HasLen(v) /\ v.nlay > 1 /\ v.dimension = 3

AllZeroDist(d) == \A k \in DOMAIN d.dist : d.dist[k] = 0

\* C7: a phase-shift call with a gridded velocity table on a radargram whose
\* distances are all zero fails with DistanceUnset before any gridding is
\* done; DistanceUnset is raised in no other case, so a constant or layered
\* velocity with the same distances does not raise it.
C7_DistanceUnset ==
  /\ (gvp_arg # NoVel /\ GriddedSpec(gvp_arg) /\ AllZeroDist(dat0)
        /\ pc # "gvp_distcheck")
       => (pc = "error" /\ err = "DistanceUnset" /\ "grid" \notin work /\ vmig = NoVel)
  /\ err = "DistanceUnset"
       => (gvp_arg # NoVel /\ GriddedSpec(gvp_arg) /\ AllZeroDist(dat0))

\* C7 witness: the error was raised.
C7_Witness ==
  /\ pc = "error"
  /\ err = "DistanceUnset"
  /\ "gvp" \in work

\* C8: an all-zero sample matrix is migrated to an all-zero sample matrix by
\* every engine and every velocity kind.
C8_ConstantZero ==
  (pc = "done" /\ AllCls(dat0.data, "Z")) => AllCls(dat.data, "Z")

\* C9: in migrationPhaseShift a velocity file that loads supplies the array
\* given to getVelocityProfile and to phaseShift in place of the vel argument;
\* a file that does not load ends the call with VelocityFileUnreadable; with
\* no file the vel argument is given to both unchanged.
C9_VelocityFile ==
  engine = "phaseshift" =>
    /\ vel_fn.state = "loads" =>
         /\ gvp_arg \in {NoVel, vel_fn.table}
         /\ ps_arg \in {NoVel, vel_fn.table}
    /\ vel_fn.state = "absent" =>
         /\ gvp_arg \in {NoVel, vel_in}
         /\ ps_arg \in {NoVel, vel_in}
    /\ (vel_fn.state = "unreadable" /\ pc \notin {"p_fft", "p_velfile"}
          /\ Rows(dat0.data) = dat0.snum /\ Cols(dat0.data) = dat0.tnum)
         => (pc = "error" /\ err = "VelocityFileUnreadable"
               /\ gvp_arg = NoVel /\ ps_arg = NoVel)
    /\ err = "VelocityFileUnreadable" => vel_fn.state = "unreadable"

\* C9 witness: the recursion received the table loaded from the file, not the
\* caller's argument.
C9_Witness ==
  /\ ps_arg # NoVel
  /\ vel_fn.state = "loads"
  /\ ps_arg = vel_fn.table
  /\ ps_arg # vel_in

\* The reference matrix: first row [1, 0, ..., 0], last row all ones, interior
\* row i with d at column i, k1 at column i+1, k2 at column i-1.
ReferenceStencil(N, d, k1, k2) ==
  [i \in 1..N |-> [j \in 1..N |->
     IF i = 1 THEN (IF j = 1 THEN 1 ELSE 0)
     ELSE IF i = N THEN 1
     ELSE IF j = i THEN d
     ELSE IF j = i + 1 THEN k1
     ELSE IF j = i - 1 THEN k2
     ELSE 0]]

\* C10: the matrix Sp_Matr builds for size N, diagonal d and off-diagonals
\* k1, k2, with k3 = k4 = 0 and nx = 0, is the reference matrix; with d = -2,
\* k1 = k2 = 1 its interior rows are the discrete Laplacian.
C10_StencilMatrix ==
  stencil # NoMat =>
    /\ stencil = ReferenceStencil(dat.tnum, -2, 1, 1)
    /\ \A d \in -2..2, k1 \in 0..1, k2 \in 0..1 :
         Sp_Matr(dat.tnum, d, k1, k2, 0, 0, 0) = ReferenceStencil(dat.tnum, d, k1, k2)

\* C11: in the gridded branch every call of the diffraction operator, at
\* depth itau >= 1 (0-based) and frequency iw, receives as FFX_last the field
\* produced for the same frequency iw at depth itau-1; the operator is never
\* called at the first depth, nor in the constant or layered branches.
C11_SameFrequencyLast ==
  /\ \A c \in ffd_calls :
       /\ c.itau > 1
       /\ c.last = <<c.itau - 1, c.iw>>
  /\ ffd_calls # {} => (vmig # NoVel /\ IsGridded(vmig))

\* The constant-velocity branch is running or has run.
ConstBranch == TK_writers # NoMat /\ vmig # NoVel /\ ~HasLen(vmig)

\* The frequency indices whose iteration is complete.
Processed == IF pc = "ps_const" THEN 1..(iw - 1) ELSE 1..Rows(FK)

\* C12 (as claimed): in the constant-velocity branch no cell of TK is written
\* by two different frequency indices.
C12_DisjointWriters ==
  ConstBranch =>
    \A t \in 1..dat.snum, x \in 1..dat.tnum : Cardinality(TK_writers[t][x]) <= 1

\* C12 (amended): in the constant-velocity branch frequency iw accumulates, at
\* every itau, into exactly the cells (itau, kx) whose kx passes its mask
\* vkx2 < w**2; the kx = 0 column passes every mask, so it is written by every
\* frequency, and the zero frequency writes that column only.
C12_MaskedWriters ==
  ConstBranch =>
    /\ \A t \in 1..dat.snum, x \in 1..dat.tnum :
         TK_writers[t][x] = {w \in Processed : Propagating(dat, vmig.v, Rows(FK), w, x)}
    /\ \A t \in 1..dat.snum :
         /\ TK_writers[t][1] = Processed
         /\ \A x \in 2..dat.tnum : 1 \notin TK_writers[t][x]

\* C12 witness: the branch has finished, one cell was written by every
\* frequency and another by fewer.
C12_Witness ==
  /\ ConstBranch
  /\ pc = "p_finish"
  /\ Cardinality(TK_writers[1][1]) = Rows(FK)
  /\ \E x \in 2..dat.tnum : Cardinality(TK_writers[dat.snum][x]) < Rows(FK)

\* The arrays after the frequencies of one depth t are processed in the
\* order given, starting from st.
RECURSIVE DepthInOrder(_, _, _, _)
DepthInOrder(st, t, order, k) ==
  IF k > Len(order) THEN st
  ELSE DepthInOrder(VarIter(st, vmig, dat, stencil, t, order[k]), t, order, k + 1)

\* C13: in the layered or gridded branch, at the start of any depth itau,
\* processing the frequency indices in any order gives the same FK rows,
\* computed from the same fields, and the same TK[itau] row as processing
\* them in the loop's order.
C13_FrequencyOrderFree ==
  (pc = "ps_var" /\ iw = 1) =>
    \A order \in Permutations(1..Rows(FK)) :
      LET inLoop == DepthInOrder(LoopState, itau, [w \in 1..Rows(FK) |-> w], 1)
          other == DepthInOrder(LoopState, itau, order, 1)
      IN /\ other.FK = inLoop.FK
         /\ other.FK_dep = inLoop.FK_dep
         /\ other.TK[itau] = inLoop.TK[itau]

\* The pixel (t, x) has been computed: the loop runs over xi, then over ti.
PixelDone(t, x) == pc = "k_assign" \/ x < xi \/ (x = xi /\ t < ti)

\* The value of pixel (t, x) as a function of the call's inputs alone.
PixelOfInput(t, x) == Pixel(dat0, Gradient(dat0.data), vel_in.v, nearfield, t, x)

\* C14: while the Kirchhoff pixel loop runs, the radargram (samples and
\* geometry) and the precomputed time derivative are what they were when the
\* loop started; every computed cell of the output matrix holds the value
\* that the inputs alone give for that pixel and every other cell is still
\* zero, so the matrix does not depend on the order of the pixels; the
\* samples are replaced, by that matrix, only after the last pixel.
C14_PixelsIndependent ==
  /\ pc \in {"k_pixel", "k_assign"} =>
       /\ dat = dat0
       /\ gradD = Gradient(dat0.data)
       /\ \A t \in 1..dat0.snum, x \in 1..dat0.tnum :
            migdata[t][x] = IF PixelDone(t, x) THEN PixelOfInput(t, x) ELSE "Z"
  /\ (pc = "done" /\ engine = "kirchhoff") =>
       /\ migdata = [t \in 1..dat0.snum |-> [x \in 1..dat0.tnum |-> PixelOfInput(t, x)]]
       /\ dat.data = migdata

\* C14 witness: the loop is under way on non-zero samples with the near-field
\* term, some pixels computed to a non-zero value and some not yet computed.
C14_Witness ==
  /\ pc = "k_pixel"
  /\ nearfield
  /\ xi > 1
  /\ AnyCls(migdata, "F")
  /\ migdata # dat.data

====
